---------------------------- MODULE Spec2Model ----------------------------
(***************************************************************************)
(* The RPC dispatch core (core/src/rpc/rpc_context.rs): the RpcContext     *)
(* trait with its two entry points execute / execute_immut, the per-method *)
(* handlers, the session and the variable map of one connection.           *)
(*                                                                         *)
(* The datastore (process / execute / compute / allows_rpc_method) and the *)
(* IAM routines are external: every call to them is recorded with its      *)
(* arguments and its outcome is drawn from a small set.                    *)
(***************************************************************************)
EXTENDS Integers, Sequences, FiniteSets, TLC

(***************************************************************************)
(* Bounds of the model.                                                    *)
(***************************************************************************)
\* Longest list of responses the datastore returns to query_inner.
MaxResponses == 2

(***************************************************************************)
(* sql::Value: a tagged union.  Every value is a record [t, v]; the        *)
(* content of an object or of an array is looked up by its name v.         *)
(***************************************************************************)
Val(t, v) == [t |-> t, v |-> v]
VNone == Val("None", "")
VNull == Val("Null", "")
Str(s) == Val("Strand", s)
Num(n) == Val("Number", n)
Bool(b) == Val("Bool", b)
Obj(o) == Val("Object", o)
Arr(a) == Val("Array", a)
Thing(r) == Val("Thing", r)
Table(tb) == Val("Table", tb)
Uuid(u) == Val("Uuid", u)
QueryV(q) == Val("Query", q)
Param(n) == Val("Param", n)

\* The empty BTreeMap<String, Value>.
EmptyMap == [k \in {} |-> VNone]

\* The key -> value pairs of the objects the model passes as arguments.
ObjectContent(o) ==
  CASE o = "callvars" -> [k \in {"name", "extra"} |-> IF k = "name" THEN Str("Call") ELSE Num("7")]
    [] o = "creds" -> [k \in {"user"} |-> Str("tobie")]
    [] o = "pretty" -> [k \in {"pretty"} |-> Bool("true")]
    [] o = "cbor" -> [k \in {"format"} |-> Str("cbor")]
    [] o = "badopts" -> [k \in {"pretty"} |-> Str("yes")]
    [] o = "request" -> [k \in {"query"} |-> Str("{ me { id } }")]
    [] OTHER -> EmptyMap

\* The elements of the arrays the datastore returns.
ArrayContent(a) ==
  CASE a = "rows" -> <<Obj("row1"), Obj("row2")>>
    [] a = "one" -> <<Obj("row1")>>
    [] OTHER -> <<>>

\* Value::first: the first element of an array, None for anything else.
First(val) ==
  IF val.t = "Array" /\ Len(ArrayContent(val.v)) > 0
  THEN ArrayContent(val.v)[1]
  ELSE VNone

is_none_or_null(val) == val.t \in {"None", "Null"}
is_true(val) == val = Bool("true")
is_query(val) == val.t = "Query"
is_strand(val) == val.t = "Strand"

(***************************************************************************)
(* dbs::Session: Option<String> is a sequence of length 0 or 1.            *)
(***************************************************************************)
NoneOpt == <<>>
Some(x) == <<x>>
is_none(o) == o = <<>>
is_some(o) == o # <<>>

\* Session::default(), which mem::take leaves behind.
DefaultSession == [ns |-> NoneOpt, db |-> NoneOpt, rt |-> FALSE, au |-> "anon"]

(***************************************************************************)
(* Results: Result<Data, RpcError>.  Data is a value or a response list.   *)
(***************************************************************************)
Ok(val) == [ok |-> TRUE, err |-> "", d |-> "Other", val |-> val, resps |-> <<>>]
OkResponses(rs) == [ok |-> TRUE, err |-> "", d |-> "Query", val |-> VNone, resps |-> rs]
Err(e) == [ok |-> FALSE, err |-> e, d |-> "", val |-> VNone, resps |-> <<>>]
NoResult == [ok |-> FALSE, err |-> "<pending>", d |-> "", val |-> VNone, resps |-> <<>>]


(***************************************************************************)
(* rpc::args::Take: the positional argument extractors.  Each gives the    *)
(* required tuple, pads the missing trailing positions with None, and      *)
(* fails on any other number of arguments.                                 *)
(***************************************************************************)
Arg(p, i) == IF i <= Len(p) THEN p[i] ELSE VNone
Taken(good, p) == [ok |-> good, a |-> Arg(p, 1), b |-> Arg(p, 2), c |-> Arg(p, 3), d |-> Arg(p, 4)]
needs_one(p) == Taken(Len(p) = 1, p)
needs_two(p) == Taken(Len(p) = 2, p)
needs_one_or_two(p) == Taken(Len(p) \in 1..2, p)
needs_one_two_or_three(p) == Taken(Len(p) \in 1..3, p)
needs_three_or_four(p) == Taken(Len(p) \in 3..4, p)

(***************************************************************************)
(* The map! and mrg! macros over BTreeMap<String, Value>.                  *)
(***************************************************************************)
\* BTreeMap::extend: the pairs of x are inserted into m, replacing the
\* values of the keys m already holds.
Extend(m, x) == [k \in DOMAIN m \cup DOMAIN x |-> IF k \in DOMAIN x THEN x[k] ELSE m[k]]
Insert(m, k, v) == [j \in DOMAIN m \cup {k} |-> IF j = k THEN v ELSE m[j]]
Remove(m, k) == [j \in DOMAIN m \ {k} |-> m[j]]

\* map!{ k1 => v1, ..., => &vars }: the given pairs on top of a copy of vars.
map(pairs, base) == Extend(base, pairs)

(***************************************************************************)
(* The state of one RPC context.                                           *)
(***************************************************************************)
VARIABLES
  session,      \* the connection's Session
  vars,         \* the connection's variable map
  env,          \* the implementation's flags: LQ_SUPPORT, GraphQL configuration
  pc,           \* "idle"; "iam": a handler is suspended in an IAM call; "done": it returned
  tmp_session,  \* the session moved out by signup / signin / authenticate
  req,          \* the current or last call: entry point, method, params, gate answer
  result,       \* what that call returned
  ds,           \* the datastore calls that call made
  iam,          \* the IAM calls that call made
  cb,           \* the handle_live / handle_kill callbacks that call made
  pre,          \* session and variable map when that call started
  lastSet,      \* per name, what the most recent successful Set / Unset left
  conv          \* the value handed to Assignment::try_from and what it returned

state == <<session, vars, env, pc, tmp_session, req, result, ds, iam, cb, pre, lastSet, conv>>

(***************************************************************************)
(* rpc::Method, and the inputs the model draws for each method.            *)
(***************************************************************************)
Methods ==
  {"Ping", "Info", "Use", "Signup", "Signin", "Invalidate", "Authenticate", "Kill", "Live",
   "Set", "Unset", "Select", "Insert", "InsertRelation", "Create", "Upsert", "Update", "Merge",
   "Patch", "Delete", "Version", "Query", "Relate", "Run", "GraphQL", "Unknown"}

\* Use: every pair of arguments, and a call of each wrong arity.
UseParams ==
  {<<a, b>> : a \in {VNone, VNull, Str("acme"), Num("42")}, b \in {VNone, VNull, Str("x"), Num("42")}}
    \cup {<<>>, <<Str("acme")>>, <<VNull, VNull, VNull>>}

\* Set: a string key with a literal, with an expression reading the key's own
\* variable, and with no value; a key named as a synthesised parameter; a
\* reserved name as key; a key that is no string; no key.
SetParams ==
  {<<Str("name"), Str("John")>>, <<Str("name"), Num("42")>>, <<Str("name"), Param("name")>>,
   <<Str("name")>>, <<Str("what"), Str("John")>>, <<Str("auth"), Str("John")>>,
   <<Num("42"), Str("John")>>, <<>>}

ParamsOf(m) ==
  CASE m = "Use" -> UseParams
    [] m \in {"Signup", "Signin", "Authenticate"} -> {<<Obj("creds")>>, <<Str("jwt")>>, <<>>}
    [] m = "Set" -> SetParams
    [] m \in {"Select", "Delete"} ->
         {<<Thing("user:1")>>, <<Thing("user:1..9")>>, <<Str("user")>>, <<>>}
    [] m \in {"Create", "Merge"} ->
         {<<Thing("user:1")>>, <<Str("user"), Obj("data")>>, <<>>}
    [] m \in {"Insert", "InsertRelation"} ->
         {<<Str("user"), Obj("data")>>, <<VNull, Obj("data")>>, <<Thing("user:1"), Obj("data")>>,
          <<Str("user")>>}
    [] m \in {"Upsert", "Update"} ->
         {<<Thing("user:1")>>, <<Str("user"), Obj("data")>>,
          <<Str("user"), Obj("data"), Obj("opts")>>, <<Str("user"), VNone, Num("42")>>, <<>>}
    [] m = "Patch" ->
         {<<Thing("user:1"), Arr("ops")>>, <<Str("user"), Arr("ops"), Bool("true")>>,
          <<Thing("user:1")>>, <<>>}
    [] m = "Relate" ->
         {<<Thing("user:1"), Str("likes"), Thing("post:1")>>,
          <<Thing("user:1"), Str("likes"), Arr("posts"), Obj("data")>>,
          <<Thing("user:1"), Str("likes")>>}
    [] m = "Kill" -> {<<Uuid("u2")>>, <<>>}
    [] m = "Live" -> {<<Str("user")>>, <<Str("user"), Bool("true")>>, <<>>}
    [] m = "Query" ->
         {<<Str("SELECT $name")>>, <<QueryV("SELECT $what")>>, <<Str("SELECT $name"), Obj("callvars")>>,
          <<Str("SELECT $name"), Num("42")>>, <<Num("42")>>, <<>>}
    [] m = "Run" ->
         {<<Str("fn::greet")>>, <<Str("ml::vision")>>, <<Str("ml::vision"), Str("1.0.0")>>,
          <<Str("time::now"), VNull, Arr("args")>>, <<Str("abs")>>, <<Num("42")>>,
          <<Str("fn::greet"), Num("42")>>, <<Str("fn::greet"), VNone, Num("42")>>, <<>>}
    [] m = "GraphQL" ->
         {<<Str("{ me { id } }")>>, <<Str("{ me { id } }"), Obj("pretty")>>,
          <<Str("{ me { id } }"), Obj("cbor")>>, <<Obj("request"), Obj("cbor")>>,
          <<Obj("request"), Obj("badopts")>>, <<Num("42"), Obj("pretty")>>, <<>>}
    [] m = "Version" -> {<<>>, <<Str("user")>>}
    [] m = "Unset" -> {<<Str("name")>>, <<Str("what")>>, <<Num("42")>>, <<>>}
    [] OTHER -> {<<>>, <<Str("user")>>}  \* Ping, Info, Invalidate, Unknown take none

(***************************************************************************)
(* What a call leaves behind.                                              *)
(***************************************************************************)
\* The handler returns res, leaving session s and variable map v, having
\* made the datastore calls dscalls and the callbacks cbs.
Return(res, s, v, dscalls, cbs) ==
  /\ result' = res
  /\ session' = s
  /\ vars' = v
  /\ ds' = dscalls
  /\ cb' = cbs
  /\ iam' = <<>>
  /\ pc' = "done"
  /\ tmp_session' = DefaultSession

\* A handler taking &self: it returns res after the datastore calls dscalls.
Reply(res, dscalls) ==
  /\ Return(res, session, vars, dscalls, <<>>)
  /\ lastSet' = lastSet

(***************************************************************************)
(* The datastore, as the handlers see it.                                  *)
(***************************************************************************)
\* A statement handed to process / execute / compute.
BaseStmt ==
  [kind |-> "", what |-> VNone, expr |-> "", data |-> "", output |-> "", cond |-> "",
   name |-> "", version |-> NoneOpt, args |-> VNone]

\* dbs::Response: the query type and the result of one statement.
Resp(qt, good, val) == [qt |-> qt, ok |-> good, val |-> val]

\* What a datastore call returns: an error, or a list of responses (process,
\* execute), or a value (compute).
DsFail == [ok |-> FALSE, val |-> VNone, resps |-> <<>>]
DsOk(rs) == [ok |-> TRUE, val |-> VNone, resps |-> rs]
DsVal(val) == [ok |-> TRUE, val |-> val, resps |-> <<>>]

\* process of one statement: it fails, or gives the statement's response.
ProcessOutcomes ==
  {DsFail, DsOk(<<Resp("Other", TRUE, Arr("rows"))>>), DsOk(<<Resp("Other", FALSE, VNone)>>)}
\* compute of one expression under the variables given: it fails, or gives
\* the expression's value (a parameter reads given, a literal is itself).
ComputeOutcomes(val, given) ==
  {DsFail,
   DsVal(IF val.t # "Param" THEN val
         ELSE IF val.v \in DOMAIN given THEN given[val.v] ELSE VNone)}

\* One recorded datastore call: the operation, its three arguments (vars is
\* an Option) and what it returned.
DsCall(op, stmt, sess, optvars, ret) ==
  [op |-> op, stmt |-> stmt, sess |-> sess, vars |-> optvars, ret |-> ret]

\* res.remove(0).result? of a process call, then .first() when one is set.
first_result_whole(ret, one) ==
  IF ret.ok /\ ret.resps[1].ok THEN Ok(ret.resps[1].val) ELSE Err("Thrown")
first_result(ret, one) ==
  IF ~ret.ok THEN Err("Thrown")
  ELSE IF ~ret.resps[1].ok THEN Err("Thrown")
  ELSE IF one THEN Ok(First(ret.resps[1].val))
  ELSE Ok(ret.resps[1].val)

(***************************************************************************)
(* The IAM routines signup, signin and verify::token: each is handed the   *)
(* session mutably and the argument, and returns a token (nothing for      *)
(* verify::token) or fails.  It may have written the session before        *)
(* failing.                                                                *)
(***************************************************************************)
Authed(s) == [s EXCEPT !.au = "user", !.ns = Some("acme"), !.db = Some("x")]

IamOutcomes(s) ==
  {[ok |-> TRUE, sess |-> Authed(s)],
   [ok |-> FALSE, sess |-> s],
   [ok |-> FALSE, sess |-> Authed(s)]}

\* iam::clear::clear: the authentication fields are reset.
clear(s) == [s EXCEPT !.au = "anon"]

(***************************************************************************)
(* RpcContext::yuse                                                        *)
(***************************************************************************)
\* The match on one argument: the field after it, or a failure.
yuse_arg(field, arg) ==
  CASE arg.t = "None" -> [ok |-> TRUE, f |-> field]
    [] arg.t = "Null" -> [ok |-> TRUE, f |-> NoneOpt]
    [] arg.t = "Strand" -> [ok |-> TRUE, f |-> Some(arg.v)]
    [] OTHER -> [ok |-> FALSE, f |-> field]

\* Clear any residual database.
yuse_keeps_residual(s) == s
yuse_residual(s) ==
  IF is_none(s.ns) /\ is_some(s.db) THEN [s EXCEPT !.db = NoneOpt] ELSE s

yuse(params) ==
  LET t == needs_two(params)
      n == yuse_arg(session.ns, t.a)
      s1 == [session EXCEPT !.ns = n.f]
      d == yuse_arg(s1.db, t.b)
      s2 == [s1 EXCEPT !.db = d.f]
  IN /\ lastSet' = lastSet
     /\ IF ~t.ok THEN Return(Err("InvalidParams"), session, vars, <<>>, <<>>)
        ELSE IF ~n.ok THEN Return(Err("InvalidParams"), session, vars, <<>>, <<>>)
        ELSE IF ~d.ok THEN Return(Err("InvalidParams"), s1, vars, <<>>, <<>>)
        ELSE Return(Ok(VNone), yuse_residual(s2), vars, <<>>, <<>>)

(***************************************************************************)
(* RpcContext::signup, signin, authenticate: the handler up to the await   *)
(* of the IAM call, the return of that call, and the drop of the handler's *)
(* future while it is suspended there.                                     *)
(***************************************************************************)
\* let mut tmp_session = mem::take(self.session_mut()); then the IAM call.
take_session(op, arg) ==
  /\ tmp_session' = session
  /\ session' = DefaultSession
  /\ pc' = "iam"
  /\ iam' = <<[op |-> op, arg |-> arg, sess |-> session, out |-> "pending"]>>
  /\ result' = NoResult
  /\ UNCHANGED <<vars, ds, cb, lastSet>>

signup(params) ==
  LET t == needs_one(params)
  IN IF ~(t.ok /\ t.a.t = "Object")
     THEN Return(Err("InvalidParams"), session, vars, <<>>, <<>>) /\ lastSet' = lastSet
     ELSE take_session("signup", t.a)

signin(params) ==
  LET t == needs_one(params)
  IN IF ~(t.ok /\ t.a.t = "Object")
     THEN Return(Err("InvalidParams"), session, vars, <<>>, <<>>) /\ lastSet' = lastSet
     ELSE take_session("signin", t.a)

authenticate(params) ==
  LET t == needs_one(params)
  IN IF ~(t.ok /\ t.a.t = "Strand")
     THEN Return(Err("InvalidParams"), session, vars, <<>>, <<>>) /\ lastSet' = lastSet
     ELSE take_session("token", t.a)

\* out.map(...): the token of signup / signin, None for authenticate.
iam_result(op, good) ==
  IF ~good THEN Err("InvalidAuth")
  ELSE IF op = "token" THEN Ok(VNone)
  ELSE Ok(Str("token"))

\* The session the context holds once the IAM call has returned with the
\* session s: *self.session_mut() = tmp_session.
restore_session(held, s) == s

\* The IAM call returns; the handler puts tmp_session back and returns.
iam_return ==
  /\ pc = "iam"
  /\ \E out \in IamOutcomes(tmp_session) :
       /\ session' = restore_session(session, out.sess)
       /\ result' = iam_result(iam[1].op, out.ok)
       /\ iam' = <<[iam[1] EXCEPT !.sess = out.sess, !.out = IF out.ok THEN "ok" ELSE "err"]>>
  /\ pc' = "done"
  /\ tmp_session' = DefaultSession
  /\ UNCHANGED <<vars, env, req, ds, cb, pre, lastSet, conv>>

\* The transport drops the handler's future while the IAM call is pending:
\* the local tmp_session is dropped with it.
cancel ==
  /\ pc = "iam"
  /\ pc' = "done"
  /\ tmp_session' = DefaultSession
  /\ result' = Err("<cancelled>")
  /\ iam' = <<[iam[1] EXCEPT !.out = "cancelled"]>>
  /\ UNCHANGED <<session, vars, env, req, ds, cb, pre, lastSet, conv>>

(***************************************************************************)
(* RpcContext::invalidate                                                  *)
(***************************************************************************)
invalidate ==
  /\ result' = Ok(VNone)
  /\ session' = clear(session)
  /\ iam' = <<[op |-> "clear", arg |-> VNone, sess |-> clear(session), out |-> "ok"]>>
  /\ pc' = "done"
  /\ UNCHANGED <<vars, tmp_session, ds, cb, lastSet>>

(***************************************************************************)
(* RpcContext::info                                                        *)
(***************************************************************************)
info ==
  \E ret \in ProcessOutcomes :
    LET sql == [BaseStmt EXCEPT !.kind = "SELECT", !.expr = "*", !.what = Param("auth")]
    IN Reply(first_result(ret, TRUE), <<DsCall("process", sql, session, NoneOpt, ret)>>)

(***************************************************************************)
(* RpcContext::set and RpcContext::unset                                   *)
(***************************************************************************)
\* The query parameters of set: map!{ key => Value::None, => &self.vars() }.
set_var(v, key) == map((key :> VNone), v)

\* Remove the variable if undefined, store it if defined.
set_always_stores(v, key, val) == Insert(v, key, val)
set_store(v, key, val) == IF val = VNone THEN Remove(v, key) ELSE Insert(v, key, val)

set(params) ==
  LET t == needs_one_or_two(params)
  IN IF ~(t.ok /\ t.a.t = "Strand")
     THEN Return(Err("InvalidParams"), session, vars, <<>>, <<>>) /\ lastSet' = lastSet
     ELSE \E ret \in ComputeOutcomes(t.b, set_var(vars, t.a.v)) :
            LET key == t.a.v
                expr == [BaseStmt EXCEPT !.kind = "EXPR", !.what = t.b]
                call == DsCall("compute", expr, session, Some(set_var(vars, key)), ret)
            IN IF ~ret.ok
               THEN Return(Err("Thrown"), session, vars, <<call>>, <<>>) /\ lastSet' = lastSet
               ELSE /\ Return(Ok(VNull), session, set_store(vars, key, ret.val), <<call>>, <<>>)
                    /\ lastSet' = IF ret.val = VNone THEN Remove(lastSet, key)
                                  ELSE Insert(lastSet, key, ret.val)

\* Remove the set parameter.
unset_keeps(v, key) == v
unset_remove(v, key) == Remove(v, key)

unset(params) ==
  LET t == needs_one(params)
  IN IF ~(t.ok /\ t.a.t = "Strand")
     THEN Return(Err("InvalidParams"), session, vars, <<>>, <<>>) /\ lastSet' = lastSet
     ELSE /\ Return(Ok(VNull), session, unset_remove(vars, t.a.v), <<>>, <<>>)
          /\ lastSet' = Remove(lastSet, t.a.v)

(***************************************************************************)
(* The CRUD handlers.  Each builds one statement and one variable map and  *)
(* hands them to process.                                                  *)
(***************************************************************************)
\* Value::could_be_table: a string becomes a table reference.
could_be_table(val) == IF val.t = "Strand" THEN Table(val.v) ELSE val
\* Value::is_thing_single: a record id whose id is no range.
RangeIds == {"user:1..9"}
is_thing_single(val) == val.t = "Thing" /\ val.v \notin RangeIds
\* Value::is_single: an object, or a single record id.
is_single(val) == val.t = "Object" \/ is_thing_single(val)
is_table(val) == val.t = "Table"

\* self.kvs().process(sql, self.session(), Some(var)), then the first result.
process_one_session_vars(sql, var, one) ==
  \E ret \in ProcessOutcomes :
    Reply(first_result(ret, one), <<DsCall("process", sql, session, Some(vars), ret)>>)
process_one(sql, var, one) ==
  \E ret \in ProcessOutcomes :
    Reply(first_result(ret, one), <<DsCall("process", sql, session, Some(var), ret)>>)

InvalidParams == Reply(Err("InvalidParams"), <<>>)

select(params) ==
  LET t == needs_one(params)
      sql == [BaseStmt EXCEPT !.kind = "SELECT", !.expr = "*", !.what = Param("what")]
      var == map(("what" :> could_be_table(t.a)), vars)
  IN IF ~t.ok THEN InvalidParams ELSE process_one(sql, var, is_thing_single(t.a))

insert(params) ==
  LET t == needs_two(params)
      sql == [BaseStmt EXCEPT !.kind = "INSERT", !.data = "SINGLE", !.output = "AFTER"]
  IN IF ~t.ok THEN InvalidParams
     ELSE IF is_none_or_null(t.a)
     THEN process_one(sql, map(("data" :> t.b), vars), FALSE)
     ELSE process_one([sql EXCEPT !.what = Param("what")],
                      map(("what" :> could_be_table(t.a)) @@ ("data" :> t.b), vars), FALSE)

insert_relation(params) ==
  LET t == needs_two(params)
      sql == [BaseStmt EXCEPT !.kind = "INSERT RELATION", !.data = "SINGLE", !.output = "AFTER"]
  IN IF ~t.ok THEN InvalidParams
     ELSE IF is_none_or_null(t.a)
     THEN process_one(sql, map(("data" :> t.b), vars), FALSE)
     ELSE IF t.a.t \in {"Table", "Strand"}
     THEN process_one([sql EXCEPT !.what = Param("what")],
                      map(("data" :> t.b) @@ ("what" :> could_be_table(t.a)), vars), FALSE)
     ELSE InvalidParams

create(params) ==
  LET t == needs_one_or_two(params)
      what == could_be_table(t.a)
      one == is_thing_single(what) \/ is_table(what)
      sql == [BaseStmt EXCEPT !.kind = "CREATE", !.what = Param("what"), !.output = "AFTER",
                              !.data = IF is_none_or_null(t.b) THEN "" ELSE "MERGE"]
  IN IF ~t.ok THEN InvalidParams
     ELSE process_one(sql, map(("what" :> what) @@ ("data" :> t.b), vars), one)

merge(params) ==
  LET t == needs_one_or_two(params)
      sql == [BaseStmt EXCEPT !.kind = "UPDATE", !.what = Param("what"), !.output = "AFTER",
                              !.data = IF is_none_or_null(t.b) THEN "" ELSE "MERGE"]
  IN IF ~t.ok THEN InvalidParams
     ELSE process_one(sql, map(("what" :> could_be_table(t.a)) @@ ("data" :> t.b), vars),
                      is_thing_single(t.a))

patch(params) ==
  LET t == needs_one_two_or_three(params)
      sql == [BaseStmt EXCEPT !.kind = "UPDATE", !.what = Param("what"), !.data = "PATCH",
                              !.output = IF is_true(t.c) THEN "DIFF" ELSE "AFTER"]
  IN IF ~t.ok THEN InvalidParams
     ELSE process_one(sql, map(("what" :> could_be_table(t.a)) @@ ("data" :> t.b), vars),
                      is_thing_single(t.a))

relate(params) ==
  LET t == needs_three_or_four(params)
      sql == [BaseStmt EXCEPT !.kind = "RELATE", !.what = Param("from->kind->to"),
                              !.output = "AFTER",
                              !.data = IF is_none_or_null(t.d) THEN "" ELSE "CONTENT"]
      var == map(("from" :> t.a) @@ ("kind" :> could_be_table(t.b)) @@ ("to" :> t.c)
                 @@ ("data" :> t.d), vars)
  IN IF ~t.ok THEN InvalidParams
     ELSE process_one(sql, var, is_single(t.a) /\ is_single(t.c))

delete(params) ==
  LET t == needs_one(params)
      sql == [BaseStmt EXCEPT !.kind = "DELETE", !.what = Param("what"), !.output = "BEFORE"]
  IN IF ~t.ok THEN InvalidParams
     ELSE process_one(sql, map(("what" :> could_be_table(t.a)), vars), is_thing_single(t.a))

(***************************************************************************)
(* rpc::statement_options::StatementOptions, as upsert and update use it.  *)
(***************************************************************************)
\* StatementOptions::default(), then with_data_content(data) when data is
\* neither None nor Null.
options_default(data) ==
  [data |-> IF is_none_or_null(data) THEN NoneOpt ELSE Some(data),
   data_expr |-> "CONTENT", output |-> "AFTER", cond |-> "", vars |-> NoneOpt]

\* process_options: the options object is read (here its vars, an object of
\* variables for the statement); anything but an object is refused.
process_options(opts, val) ==
  LET c == ObjectContent(val.v)
  IN IF val.t # "Object" THEN [ok |-> FALSE, opts |-> opts]
     ELSE IF "vars" \notin DOMAIN c THEN [ok |-> TRUE, opts |-> opts]
     ELSE IF c["vars"].t # "Object" THEN [ok |-> FALSE, opts |-> opts]
     ELSE [ok |-> TRUE, opts |-> [opts EXCEPT !.vars = Some(ObjectContent(c["vars"].v))]]

\* merge_vars: the variables of the options, if any, with the session's.
merge_vars(opts, v) == IF is_some(opts.vars) THEN Extend(opts.vars[1], v) ELSE v

\* data_expr: the data clause, when there is data.
data_expr(opts) == IF is_some(opts.data) THEN opts.data_expr ELSE ""

\* upsert and update differ in the statement they build alone.
upsert_or_update(kind, params) ==
  LET t == needs_one_two_or_three(params)
      o1 == options_default(t.b)
      po == IF is_none_or_null(t.c) THEN [ok |-> TRUE, opts |-> o1] ELSE process_options(o1, t.c)
      opts == po.opts
      sql == [BaseStmt EXCEPT !.kind = kind, !.what = t.a, !.data = data_expr(opts),
                              !.output = opts.output, !.cond = opts.cond]
  IN IF ~t.ok THEN InvalidParams
     ELSE IF ~po.ok THEN InvalidParams
     ELSE process_one(sql, merge_vars(opts, vars), is_thing_single(t.a))

upsert(params) == upsert_or_update("UPSERT", params)
update(params) == upsert_or_update("UPDATE", params)

(***************************************************************************)
(* RpcContext::query_inner and RpcContext::handle_live_query_results       *)
(***************************************************************************)
\* The callback one response triggers, if any.
handle_live_query_results(r) ==
  IF r.qt = "Live" /\ r.ok /\ r.val.t = "Uuid" THEN <<[fn |-> "handle_live", lqid |-> r.val.v]>>
  ELSE IF r.qt = "Kill" /\ r.ok /\ r.val.t = "Uuid" THEN <<[fn |-> "handle_kill", lqid |-> r.val.v]>>
  ELSE <<>>

\* for response in &res { self.handle_live_query_results(response).await }
RECURSIVE hooks_last_first(_)
hooks_last_first(rs) ==
  IF rs = <<>> THEN <<>>
  ELSE hooks_last_first(Tail(rs)) \o handle_live_query_results(Head(rs))
RECURSIVE hooks(_)
hooks(rs) ==
  IF rs = <<>> THEN <<>> ELSE handle_live_query_results(Head(rs)) \o hooks(Tail(rs))

\* An implementation without LQ_SUPPORT keeps the default handle_live and
\* handle_kill, which abort: the first callback is the last thing that runs.
callbacks_run(rs) ==
  IF env.LQ_SUPPORT \/ hooks(rs) = <<>> THEN hooks(rs) ELSE <<Head(hooks(rs))>>
aborts(rs) == ~env.LQ_SUPPORT /\ hooks(rs) # <<>>

\* The responses a query of any number of statements may give.
QueryResps ==
  {Resp("Live", TRUE, Uuid("u1")), Resp("Kill", TRUE, Uuid("u2")),
   Resp("Other", TRUE, Uuid("u1")), Resp("Live", FALSE, VNone)}
RECURSIVE SeqsUpTo(_, _)
SeqsUpTo(S, n) ==
  IF n = 0 THEN {<<>>}
  ELSE LET shorter == SeqsUpTo(S, n - 1)
       IN shorter \cup {Append(q, x) : q \in {r \in shorter : Len(r) = n - 1}, x \in S}
QueryOutcomes == {DsFail} \cup {DsOk(rs) : rs \in SeqsUpTo(QueryResps, MaxResponses)}
\* The responses of the one statement that kill and live build.
StatementOutcomes ==
  {DsFail} \cup {DsOk(<<r>>) : r \in QueryResps \cup {Resp("Kill", TRUE, Str("u2"))}}

\* If no live query handler force realtime off.
realtime_never_refused == FALSE
realtime_refused == ~env.LQ_SUPPORT /\ session.rt

\* query_inner: what it returns (the responses, or an error), the datastore
\* call it made and the callbacks it made, for the datastore's answer ret.
query_inner(query, optvars, ret) ==
  LET op == IF query.t = "Query" THEN "process" ELSE "execute"
      call == DsCall(op, [BaseStmt EXCEPT !.kind = "QUERY", !.what = query], session, optvars, ret)
  IN IF realtime_refused
     THEN [res |-> Err("BadLQConfig"), ds |-> <<>>, cb |-> <<>>]
     ELSE IF query.t \notin {"Query", "Strand"}
     THEN [res |-> Err("InternalError"), ds |-> <<>>, cb |-> <<>>]
     ELSE IF ~ret.ok
     THEN [res |-> Err("Thrown"), ds |-> <<call>>, cb |-> <<>>]
     ELSE IF aborts(ret.resps)
     THEN [res |-> Err("<unimplemented>"), ds |-> <<call>>, cb |-> callbacks_run(ret.resps)]
     ELSE [res |-> OkResponses(ret.resps), ds |-> <<call>>, cb |-> callbacks_run(ret.resps)]

\* Ok(res.remove(0).result?.into()) of kill and live.
first_response(q) ==
  IF ~q.res.ok THEN q.res
  ELSE IF ~q.res.resps[1].ok THEN Err("Thrown")
  ELSE Ok(q.res.resps[1].val)

(***************************************************************************)
(* RpcContext::kill and RpcContext::live                                   *)
(***************************************************************************)
kill(params) ==
  LET t == needs_one(params)
      sql == QueryV("KILL $id")
      var == map(("id" :> t.a), vars)
  IN /\ lastSet' = lastSet
     /\ IF ~t.ok THEN Return(Err("InvalidParams"), session, vars, <<>>, <<>>)
        ELSE \E ret \in StatementOutcomes :
               LET q == query_inner(sql, Some(var), ret)
               IN Return(first_response(q), session, vars, q.ds, q.cb)

live(params) ==
  LET t == needs_one_or_two(params)
      sql == IF is_true(t.b) THEN QueryV("LIVE SELECT DIFF FROM $what")
             ELSE QueryV("LIVE SELECT * FROM $what")
      var == map(("what" :> could_be_table(t.a)), vars)
  IN /\ lastSet' = lastSet
     /\ IF ~t.ok THEN Return(Err("InvalidParams"), session, vars, <<>>, <<>>)
        ELSE \E ret \in StatementOutcomes :
               LET q == query_inner(sql, Some(var), ret)
               IN Return(first_response(q), session, vars, q.ds, q.cb)

(***************************************************************************)
(* RpcContext::query                                                       *)
(***************************************************************************)
\* mrg!{ m, x }: m extended with the pairs of x.
mrg(m, x) == Extend(m, x)

\* The query parameters: the call's vars object and the session variables.
query_vars(o, v) == IF o.t = "Object" THEN mrg(ObjectContent(o.v), v) ELSE v

query(params) ==
  LET t == needs_one_or_two(params)
  IN /\ lastSet' = lastSet
     /\ IF ~t.ok THEN Return(Err("InvalidParams"), session, vars, <<>>, <<>>)
        ELSE IF ~(is_query(t.a) \/ is_strand(t.a))
        THEN Return(Err("InvalidParams"), session, vars, <<>>, <<>>)
        ELSE IF t.b.t \notin {"Object", "None", "Null"}
        THEN Return(Err("InvalidParams"), session, vars, <<>>, <<>>)
        ELSE \E ret \in QueryOutcomes :
               LET q == query_inner(t.a, Some(query_vars(t.b, vars)), ret)
               IN Return(q.res, session, vars, q.ds, q.cb)

(***************************************************************************)
(* RpcContext::version                                                     *)
(***************************************************************************)
version(params) ==
  IF Len(params) = 0 THEN Reply(Ok(Str("version_data")), <<>>) ELSE InvalidParams

(***************************************************************************)
(* RpcContext::run                                                         *)
(***************************************************************************)
\* The function to run: &name[0..4] selects the kind; the slice aborts on a
\* name shorter than four characters.
run_func(name, ver, args) ==
  IF Len(name) < 4 THEN [ok |-> FALSE, err |-> "<panic>", stmt |-> BaseStmt]
  ELSE IF SubSeq(name, 1, 4) = "fn::"
  THEN [ok |-> TRUE, err |-> "",
        stmt |-> [BaseStmt EXCEPT !.kind = "FN CUSTOM", !.name = SubSeq(name, 5, Len(name)),
                                  !.args = args]]
  ELSE IF SubSeq(name, 1, 4) = "ml::"
  THEN IF is_none(ver) THEN [ok |-> FALSE, err |-> "InvalidParams", stmt |-> BaseStmt]
       ELSE [ok |-> TRUE, err |-> "",
             stmt |-> [BaseStmt EXCEPT !.kind = "MODEL", !.name = SubSeq(name, 5, Len(name)),
                                       !.version = ver, !.args = args]]
  ELSE [ok |-> TRUE, err |-> "",
        stmt |-> [BaseStmt EXCEPT !.kind = "FN NORMAL", !.name = name, !.args = args]]

run(params) ==
  LET t == needs_one_two_or_three(params)
      ver == IF t.b.t = "Strand" THEN Some(t.b.v) ELSE NoneOpt
      args == IF t.c.t = "Array" THEN t.c ELSE Arr("empty")
      f == run_func(t.a.v, ver, args)
  IN IF ~t.ok THEN InvalidParams
     ELSE IF t.a.t # "Strand" THEN InvalidParams
     ELSE IF t.b.t \notin {"Strand", "None", "Null"} THEN InvalidParams
     ELSE IF t.c.t \notin {"Array", "None", "Null"} THEN InvalidParams
     ELSE IF ~f.ok THEN Reply(Err(f.err), <<>>)
     ELSE process_one(f.stmt, vars, FALSE)

(***************************************************************************)
(* RpcContext::graphql                                                     *)
(***************************************************************************)
\* The loop over the options object: pretty and format, or a refusal.
graphql_options(o) ==
  LET c == ObjectContent(o.v)
      good(k) == \/ k = "pretty" /\ c[k].t = "Bool"
                 \/ k = "format" /\ c[k] \in {Str("json"), Str("cbor")}
  IN [ok |-> \A k \in DOMAIN c : good(k),
      pretty |-> "pretty" \in DOMAIN c /\ c["pretty"] = Bool("true"),
      format |-> IF "format" \in DOMAIN c /\ c["format"] = Str("cbor") THEN "Cbor" ELSE "Json"]

\* The request object: query is required and a string; variables | vars an
\* object; operationName | operation a string.
graphql_request_ok(o) ==
  LET c == ObjectContent(o.v)
      either(a, b) == IF a \in DOMAIN c THEN <<c[a]>> ELSE IF b \in DOMAIN c THEN <<c[b]>> ELSE <<>>
      v == either("variables", "vars")
      n == either("operationName", "operation")
  IN /\ "query" \in DOMAIN c /\ c["query"].t = "Strand"
     /\ v # <<>> => v[1].t = "Object"
     /\ n # <<>> => n[1].t = "Strand"

\* What the GraphQL machinery outside this file does with a request.
GraphQLOutcomes == {"parse error", "variables error", "schema error", "serialization error", "ok"}

graphql(params) ==
  LET t == needs_one_or_two(params)
      o == graphql_options(t.b)
      call(good) == <<DsCall("graphql", [BaseStmt EXCEPT !.kind = "GRAPHQL", !.what = t.a],
                             session, NoneOpt, IF good THEN DsVal(Str("json")) ELSE DsFail)>>
  IN IF ~env.unstable THEN Reply(Err("MethodNotFound"), <<>>)
     ELSE IF ~env.GRAPHQL_ENABLE THEN Reply(Err("BadGQLConfig"), <<>>)
     ELSE IF ~env.GQL_SUPPORT THEN Reply(Err("BadGQLConfig"), <<>>)
     ELSE IF ~t.ok THEN InvalidParams
     ELSE IF t.b.t # "Object" THEN InvalidParams
     ELSE IF ~o.ok THEN InvalidParams
     ELSE IF t.a.t = "Strand" /\ o.format = "Cbor"
     THEN Reply(Err("Thrown(Cbor is not yet supported)"), <<>>)
     ELSE IF t.a.t \notin {"Strand", "Object"} THEN InvalidParams
     ELSE IF t.a.t = "Object" /\ ~graphql_request_ok(t.a) THEN InvalidParams
     ELSE \E g \in GraphQLOutcomes :
            CASE g = "parse error" /\ t.a.t = "Strand" -> Reply(Err("ParseError"), <<>>)
              [] g = "variables error" /\ t.a.t = "Object" -> Reply(Err("InvalidRequest"), <<>>)
              [] g = "schema error" -> Reply(Err("Thrown"), call(FALSE))
              [] g = "serialization error" -> Reply(Err("Thrown(Serialization Error)"), call(TRUE))
              [] OTHER -> Reply(Ok(Str(IF o.pretty THEN "pretty json" ELSE "json")), call(TRUE))

(***************************************************************************)
(* RpcContext::execute and RpcContext::execute_immut                       *)
(***************************************************************************)
\* The capability gate denied the method.
Denied == Reply(Err("MethodNotAllowed"), <<>>)

ping == Reply(Ok(VNone), <<>>)
unknown == Reply(Err("MethodNotFound"), <<>>)

\* The match of execute.
execute_match(method, params) ==
  \/ method = "Ping" /\ ping
  \/ method = "Info" /\ info
  \/ method = "Use" /\ yuse(params)
  \/ method = "Signup" /\ signup(params)
  \/ method = "Signin" /\ signin(params)
  \/ method = "Invalidate" /\ invalidate
  \/ method = "Authenticate" /\ authenticate(params)
  \/ method = "Kill" /\ kill(params)
  \/ method = "Live" /\ live(params)
  \/ method = "Set" /\ set(params)
  \/ method = "Unset" /\ unset(params)
  \/ method = "Select" /\ select(params)
  \/ method = "Insert" /\ insert(params)
  \/ method = "Create" /\ create(params)
  \/ method = "Upsert" /\ upsert(params)
  \/ method = "Update" /\ update(params)
  \/ method = "Merge" /\ merge(params)
  \/ method = "Patch" /\ patch(params)
  \/ method = "Delete" /\ delete(params)
  \/ method = "Version" /\ version(params)
  \/ method = "Query" /\ query(params)
  \/ method = "Run" /\ run(params)
  \/ method = "GraphQL" /\ graphql(params)
  \/ method = "Relate" /\ relate(params)
  \/ method = "InsertRelation" /\ insert_relation(params)
  \/ method = "Unknown" /\ unknown

\* The last arm of the match of execute_immut: _ => Err(MethodNotFound).
immut_delegates(method, params) == execute_match(method, params)
immut_unsets(method, params) ==
  IF method = "Unset" THEN unset(params) ELSE Reply(Err("MethodNotFound"), <<>>)
immut_fallthrough(method, params) == Reply(Err("MethodNotFound"), <<>>)

\* The methods the match of execute_immut names.
ImmutArms ==
  {"Ping", "Info", "Select", "Insert", "Create", "Upsert", "Update", "Merge", "Patch",
   "Delete", "Version", "Query", "Relate", "Run", "GraphQL", "InsertRelation", "Unknown"}

\* The match of execute_immut.
immut_rejects_all(method, params) == Reply(Err("MethodNotFound"), <<>>)
execute_immut_match(method, params) ==
  \/ method = "Ping" /\ ping
  \/ method = "Info" /\ info
  \/ method = "Select" /\ select(params)
  \/ method = "Insert" /\ insert(params)
  \/ method = "Create" /\ create(params)
  \/ method = "Upsert" /\ upsert(params)
  \/ method = "Update" /\ update(params)
  \/ method = "Merge" /\ merge(params)
  \/ method = "Patch" /\ patch(params)
  \/ method = "Delete" /\ delete(params)
  \/ method = "Version" /\ version(params)
  \/ method = "Query" /\ query(params)
  \/ method = "Relate" /\ relate(params)
  \/ method = "Run" /\ run(params)
  \/ method = "GraphQL" /\ graphql(params)
  \/ method = "InsertRelation" /\ insert_relation(params)
  \/ method = "Unknown" /\ unknown
  \/ method \notin ImmutArms /\ immut_fallthrough(method, params)

NoRequest == [entry |-> "", method |-> "", params |-> <<>>, allow |-> TRUE]

Call(entry, method, params, allow) ==
  /\ pc = "idle"
  /\ req' = [entry |-> entry, method |-> method, params |-> params, allow |-> allow]
  /\ pre' = [session |-> session, vars |-> vars]
  /\ env' = env
  /\ conv' = conv

\* execute: the capability check, then the match.  allow is the answer of
\* self.kvs().allows_rpc_method for the method.
execute_ungated(allow, method, params) == execute_match(method, params)
execute_body(allow, method, params) ==
  IF ~allow THEN Denied ELSE execute_match(method, params)

execute_immut_body(allow, method, params) ==
  IF ~allow THEN Denied ELSE execute_immut_match(method, params)

execute ==
  \E method \in Methods : \E params \in ParamsOf(method) : \E allow \in BOOLEAN :
    /\ Call("execute", method, params, allow)
    /\ execute_body(allow, method, params)

execute_immut ==
  \E method \in Methods : \E params \in ParamsOf(method) : \E allow \in BOOLEAN :
    /\ Call("execute_immut", method, params, allow)
    /\ execute_immut_body(allow, method, params)

(***************************************************************************)
(* The specification.                                                      *)
(***************************************************************************)
\* The implementations: the live-query flag and the GraphQL flags (the build
\* flag surrealdb_unstable, GQL_SUPPORT, the runtime setting GRAPHQL_ENABLE)
\* are read by different handlers; each value of each flag is shown.
Envs ==
  {[LQ_SUPPORT |-> FALSE, unstable |-> FALSE, GQL_SUPPORT |-> FALSE, GRAPHQL_ENABLE |-> FALSE],
   [LQ_SUPPORT |-> TRUE, unstable |-> TRUE, GQL_SUPPORT |-> TRUE, GRAPHQL_ENABLE |-> TRUE],
   [LQ_SUPPORT |-> FALSE, unstable |-> TRUE, GQL_SUPPORT |-> FALSE, GRAPHQL_ENABLE |-> TRUE],
   [LQ_SUPPORT |-> TRUE, unstable |-> TRUE, GQL_SUPPORT |-> TRUE, GRAPHQL_ENABLE |-> FALSE]}

\* A connection starts with a namespace and a database selected, realtime
\* or not, and no variable.
(***************************************************************************)
(* sql::Assignment: the conversions from a triple, an array, an object and *)
(* a value (crates/core/src/sql/assignment.rs).                            *)
(***************************************************************************)
\* Value::to_idiom: the idiom a value denotes; distinct values give distinct
\* idioms.  Arrays and objects carry their content here (items, fields)
\* since the conversions look into it.
to_idiom(v) == [idiom |-> v]

Array(items) == [t |-> "Array", items |-> items]
Object(fields) == [t |-> "Object", fields |-> fields]

AssignmentOk(l, o, r) == [ok |-> TRUE, l |-> l, o |-> o, r |-> r]
AssignmentErr(e) == [ok |-> FALSE, err |-> e]

\* TryFrom<(Value, Value, Value)>: the idiom is taken from tuple.1, and the
\* operator is matched on tuple.1.
try_from_tuple(t0, t1, t2) ==
  LET idiom == to_idiom(t1) IN
  IF t1.t = "Strand"
  THEN CASE t1.v = "="   -> AssignmentOk(idiom, "Equal", t2)
         [] t1.v = "+="  -> AssignmentOk(idiom, "Inc", t2)
         [] t1.v = "-="  -> AssignmentOk(idiom, "Dec", t2)
         [] t1.v = "+?=" -> AssignmentOk(idiom, "Ext", t2)
         [] OTHER        -> AssignmentErr("InvalidOperator")
  ELSE AssignmentErr("TryFrom")

\* TryFrom<Array>
try_from_array(a) ==
  IF Len(a) # 3
  THEN AssignmentErr("TryFrom")
  ELSE try_from_tuple(a[1], a[2], a[3])

\* TryFrom<Object>
try_from_object(a) ==
  IF ~("l" \in DOMAIN a /\ "o" \in DOMAIN a /\ "r" \in DOMAIN a)
  THEN AssignmentErr("TryFrom")
  ELSE try_from_tuple(a["l"], a["o"], a["r"])

\* TryFrom<Value>
try_from_value(value) ==
  CASE value.t = "Object" -> try_from_object(value.fields)
    [] value.t = "Array"  -> try_from_array(value.items)
    [] OTHER              -> AssignmentErr("TryFrom")

\* The values the conversions are exercised on.
LeftValues == {Str("name"), Str("age"), Str("=")}
OperatorValues == {Str("="), Str("+="), Str("-="), Str("+?="), Str("*="), Str("name"),
                   Num("42"), VNone}
RightValues == {Num("42"), Str("John")}
Triples == LeftValues \X OperatorValues \X RightValues
AssignmentKeys == {"l", "o", "r"}
ArrayInputs ==
  {Array(<<>>), Array(<<Str("name"), Str("=")>>),
   Array(<<Str("name"), Str("="), Num("42"), Num("42")>>)}
    \cup {Array(<<t[1], t[2], t[3]>>) : t \in Triples}
ObjectInputs ==
  {Object([k \in ks |-> IF k = "l" THEN Str("name") ELSE IF k = "o" THEN Str("=") ELSE Num("42")]) :
     ks \in (SUBSET AssignmentKeys) \ {AssignmentKeys}}
    \cup {Object([k \in AssignmentKeys \cup extra |->
                    IF k = "l" THEN t[1] ELSE IF k = "o" THEN t[2] ELSE t[3]]) :
            t \in Triples, extra \in {{}, {"x"}}}
OtherInputs == {Str("name"), Num("42"), VNone}
TupleInputs == {[t |-> "Tuple", items |-> <<t[1], t[2], t[3]>>] : t \in Triples}
AssignmentInputs == TupleInputs \cup ArrayInputs \cup ObjectInputs \cup OtherInputs

NoConversion == [from |-> VNone, called |-> FALSE, out |-> AssignmentErr("")]
Conversion(input) == [from |-> input, called |-> FALSE, out |-> AssignmentErr("")]

\* Assignment::try_from((l, o, r))
convert_tuple ==
  /\ ~conv.called /\ conv.from.t = "Tuple"
  /\ conv' = [conv EXCEPT !.called = TRUE,
                !.out = try_from_tuple(conv.from.items[1], conv.from.items[2], conv.from.items[3])]
  /\ UNCHANGED <<session, vars, env, pc, tmp_session, req, result, ds, iam, cb, pre, lastSet>>

\* Assignment::try_from(array)
convert_array ==
  /\ ~conv.called /\ conv.from.t = "Array"
  /\ conv' = [conv EXCEPT !.called = TRUE, !.out = try_from_array(conv.from.items)]
  /\ UNCHANGED <<session, vars, env, pc, tmp_session, req, result, ds, iam, cb, pre, lastSet>>

\* Assignment::try_from(object)
convert_object ==
  /\ ~conv.called /\ conv.from.t = "Object"
  /\ conv' = [conv EXCEPT !.called = TRUE, !.out = try_from_object(conv.from.fields)]
  /\ UNCHANGED <<session, vars, env, pc, tmp_session, req, result, ds, iam, cb, pre, lastSet>>

\* Assignment::try_from(value)
convert_value ==
  /\ ~conv.called /\ conv.from.t # "Tuple"
  /\ conv' = [conv EXCEPT !.called = TRUE, !.out = try_from_value(conv.from)]
  /\ UNCHANGED <<session, vars, env, pc, tmp_session, req, result, ds, iam, cb, pre, lastSet>>

Init ==
  /\ session \in {[ns |-> Some("old"), db |-> Some("foo"), rt |-> r, au |-> "anon"] : r \in BOOLEAN}
  /\ vars = EmptyMap
  /\ env \in Envs
  /\ pc = "idle"
  /\ tmp_session = DefaultSession
  /\ req = NoRequest
  /\ result = NoResult
  /\ ds = <<>>
  /\ iam = <<>>
  /\ cb = <<>>
  /\ pre = [session |-> session, vars |-> vars]
  /\ lastSet = EmptyMap
  /\ conv = NoConversion

\* The transport takes the reply; the context waits for the next request.
respond ==
  /\ pc = "done"
  /\ pc' = "idle"
  /\ req' = NoRequest
  /\ result' = NoResult
  /\ ds' = <<>>
  /\ iam' = <<>>
  /\ cb' = <<>>
  /\ pre' = [session |-> session, vars |-> vars]
  /\ UNCHANGED <<session, vars, env, tmp_session, lastSet, conv>>

Next == execute \/ execute_immut \/ iam_return \/ cancel \/ respond

Spec == Init /\ [][Next]_state

\* The Assignment conversions on their own: the RPC context stays at rest.
InitAssignment ==
  /\ session = [ns |-> Some("old"), db |-> Some("foo"), rt |-> FALSE, au |-> "anon"]
  /\ vars = EmptyMap
  /\ env = CHOOSE e \in Envs : TRUE
  /\ pc = "idle"
  /\ tmp_session = DefaultSession
  /\ req = NoRequest
  /\ result = NoResult
  /\ ds = <<>>
  /\ iam = <<>>
  /\ cb = <<>>
  /\ pre = [session |-> session, vars |-> vars]
  /\ lastSet = EmptyMap
  /\ conv \in {Conversion(i) : i \in AssignmentInputs}

NextAssignment == convert_tuple \/ convert_array \/ convert_object \/ convert_value

SpecAssignment == InitAssignment /\ [][NextAssignment]_state


(***************************************************************************)
(* Properties.                                                             *)
(***************************************************************************)
\* A call made through execute that the capability gate admitted returned.
Executed(m) == pc = "done" /\ req.entry = "execute" /\ req.allow /\ req.method = m

\* The field Use(ns, db) leaves for one argument, each taken on its own.
UseField(old, arg) ==
  CASE arg.t = "None" -> old
    [] arg.t = "Null" -> NoneOpt
    [] OTHER -> Some(arg.v)

\* C1: whenever no handler is running, a selected database implies a
\* selected namespace: the session starts so and every call keeps it so.
C1_DatabaseImpliesNamespace ==
  pc \in {"idle", "done"} => (is_some(session.db) => is_some(session.ns))

\* C2: a call the capability gate denies returns MethodNotAllowed and does
\* nothing else: session and variables are as before, and no datastore
\* call, no IAM call and no live-query callback was made.
C2_DenialDoesNothing ==
  (pc # "idle" /\ ~req.allow) =>
    /\ pc = "done"
    /\ result = Err("MethodNotAllowed")
    /\ session = pre.session
    /\ vars = pre.vars
    /\ ds = <<>> /\ iam = <<>> /\ cb = <<>>

C2_Witness ==
  /\ pc = "done" /\ ~req.allow
  /\ req.entry = "execute_immut" /\ req.method = "Set"
  /\ pre.vars # EmptyMap

\* C3: signup, signin and authenticate are all or nothing: a call that
\* returns an error leaves the session it found, a call that succeeds leaves
\* the session IAM updated and returns the token (None for authenticate).
C3_AllOrNothing ==
  \A m \in {"Signup", "Signin", "Authenticate"} :
    (Executed(m) /\ result # Err("<cancelled>")) =>
      /\ ~result.ok => session = pre.session
      /\ result.ok =>
           /\ session = iam[1].sess
           /\ result = IF m = "Authenticate" THEN Ok(VNone) ELSE Ok(Str("token"))

\* C4: once signup, signin or authenticate has moved the session out, the
\* context holds the session that was handed to IAM again whenever the
\* handler has stopped, however it stopped.
C4_SessionRestored ==
  (pc = "done" /\ iam # <<>> /\ iam[1].op \in {"signup", "signin", "token"}) =>
    session = iam[1].sess

\* C5: execute_immut answers MethodNotFound to every method of the mutating
\* set the gate admits, without running its handler; Unknown gives
\* MethodNotFound and Ping gives None through both entry points.
C5_MutatingSet ==
  {"Use", "Signup", "Signin", "Invalidate", "Authenticate", "Kill", "Live", "Set", "Unset"}
C5_ImmutRejectsMutating ==
  /\ (pc # "idle" /\ req.allow /\ req.entry = "execute_immut" /\ req.method \in C5_MutatingSet) =>
       /\ pc = "done"
       /\ result = Err("MethodNotFound")
       /\ session = pre.session /\ vars = pre.vars
       /\ ds = <<>> /\ iam = <<>> /\ cb = <<>>
  /\ (pc # "idle" /\ req.allow /\ req.method = "Unknown") =>
       pc = "done" /\ result = Err("MethodNotFound")
  /\ (pc # "idle" /\ req.allow /\ req.method = "Ping") =>
       pc = "done" /\ result = Ok(VNone)

C5_Witness ==
  /\ pc = "done" /\ req.allow /\ req.entry = "execute_immut"
  /\ req.method = "Unset" /\ req.params = <<Str("name")>>
  /\ "name" \in DOMAIN vars

\* C6: a call to execute_immut leaves the session and the variable map as
\* they were, whatever the method, the params and the datastore's answer.
C6_ImmutKeepsState ==
  (pc # "idle" /\ req.entry = "execute_immut") =>
    pc = "done" /\ session = pre.session /\ vars = pre.vars

C6_Witness ==
  /\ pc = "done" /\ req.entry = "execute_immut" /\ req.allow
  /\ req.method = "Query" /\ result.ok /\ ds # <<>>
  /\ vars # EmptyMap /\ session # DefaultSession

C8_SetStoresEvaluation ==
  Executed("Set") =>
    LET p == req.params
    IN /\ (Len(p) >= 1 /\ p[1].t # "Strand") =>
            result = Err("InvalidParams") /\ vars = pre.vars /\ ds = <<>>
       /\ (Len(p) \in 1..2 /\ p[1].t = "Strand") =>
            LET key == p[1].v
                given == ds[1].vars[1]
            IN /\ Len(ds) = 1 /\ ds[1].op = "compute"
               /\ ds[1].stmt.what = (IF Len(p) = 2 THEN p[2] ELSE VNone)
               /\ DOMAIN given = DOMAIN pre.vars \cup {key}
               /\ given[key] = VNone
               /\ \A k \in DOMAIN pre.vars \ {key} : given[k] = pre.vars[k]
               /\ ds[1].ret.ok =>
                    /\ result = Ok(VNull)
                    /\ ds[1].ret.val = VNone => key \notin DOMAIN vars
                    /\ ds[1].ret.val # VNone => key \in DOMAIN vars /\ vars[key] = ds[1].ret.val
                    /\ DOMAIN vars \ {key} = DOMAIN pre.vars \ {key}
                    /\ \A k \in DOMAIN vars \ {key} : vars[k] = pre.vars[k]

C8_Witness ==
  /\ Executed("Set") /\ req.params = <<Str("name"), Param("name")>>
  /\ "name" \in DOMAIN pre.vars /\ pre.vars["name"] = Num("42")
  /\ "what" \in DOMAIN pre.vars
  /\ ds[1].ret = DsVal(VNone)
  /\ DOMAIN vars = {"what"}

\* The names the handlers synthesise as statement parameters.
C9_Synthesised == {"what", "data", "id", "from", "kind", "to"}
C9_Crud ==
  {"Select", "Insert", "InsertRelation", "Create", "Upsert", "Update", "Merge", "Patch",
   "Delete", "Relate"}
\* The names a call brings in its own vars object.
C9_OwnNames ==
  IF req.method = "Query" /\ Len(req.params) = 2 /\ req.params[2].t = "Object"
  THEN DOMAIN ObjectContent(req.params[2].v)
  ELSE {}

C10_CallVarsOnTop ==
  (pc = "done" /\ req.allow /\ req.method = "Query" /\ ds # <<>>
     /\ Len(req.params) = 2 /\ req.params[2].t = "Object") =>
    LET own == ObjectContent(req.params[2].v)
        passed == ds[1].vars[1]
    IN /\ DOMAIN passed = DOMAIN own \cup DOMAIN pre.vars
       /\ \A k \in DOMAIN own : passed[k] = own[k]
       /\ \A k \in DOMAIN pre.vars \ DOMAIN own : passed[k] = pre.vars[k]
       /\ vars = pre.vars

\* C11: the reserved names auth and session are read-only: the stored
\* variable map never binds them, and no variable map handed to the
\* datastore binds one of them to a value.
C11_Reserved == {"auth", "session"}
C11_ReservedReadOnly ==
  pc = "done" =>
    /\ \A k \in C11_Reserved : k \notin DOMAIN vars
    /\ \A i \in 1..Len(ds) : \A k \in C11_Reserved :
         (is_some(ds[i].vars) /\ k \in DOMAIN ds[i].vars[1]) => ds[i].vars[1][k] = VNone

\* The call reached query_inner: a Query with a statement or string and an
\* acceptable vars argument, or a Live or Kill of the right arity.
C12_ReachesQueryInner ==
  /\ pc = "done" /\ req.allow
  /\ \/ /\ req.method = "Query" /\ Len(req.params) \in 1..2
        /\ req.params[1].t \in {"Query", "Strand"}
        /\ Len(req.params) = 2 => req.params[2].t \in {"Object", "None", "Null"}
     \/ req.entry = "execute" /\ req.method = "Live" /\ Len(req.params) \in 1..2
     \/ req.entry = "execute" /\ req.method = "Kill" /\ Len(req.params) = 1

\* C12: on an implementation without LQ_SUPPORT, a Query, Live or Kill of a
\* realtime session returns BadLQConfig, and no datastore call and no
\* callback is made.
C12_RealtimeRefused ==
  (C12_ReachesQueryInner /\ ~env.LQ_SUPPORT /\ pre.session.rt) =>
    result = Err("BadLQConfig") /\ ds = <<>> /\ cb = <<>>

C12_Witness ==
  /\ C12_ReachesQueryInner /\ ~env.LQ_SUPPORT /\ pre.session.rt
  /\ req.method = "Live" /\ req.params = <<Str("user"), Bool("true")>>
  /\ result = Err("BadLQConfig")

\* How many positions of the sequence q hold the element x.
C13_Count(q, x) == Cardinality({i \in 1..Len(q) : q[i] = x})

\* C13: for every list of responses the datastore returned to query_inner,
\* each Live response with an Ok uuid made one handle_live call with that
\* uuid, each Kill response with an Ok uuid one handle_kill call with that
\* uuid, and no other callback was made.
C13_OneCallbackPerResponse ==
  (C12_ReachesQueryInner /\ ds # <<>> /\ ds[1].ret.ok) =>
    LET rs == ds[1].ret.resps
    IN /\ \A u \in {"u1", "u2"} :
            /\ C13_Count(cb, [fn |-> "handle_live", lqid |-> u])
                 = C13_Count(rs, Resp("Live", TRUE, Uuid(u)))
            /\ C13_Count(cb, [fn |-> "handle_kill", lqid |-> u])
                 = C13_Count(rs, Resp("Kill", TRUE, Uuid(u)))
       /\ \A i \in 1..Len(cb) : cb[i].lqid \in {"u1", "u2"}

\* C14: an implementation without LQ_SUPPORT never has its handle_live or
\* handle_kill called.
C14_DefaultHandlersUnreached ==
  ~env.LQ_SUPPORT => cb = <<>>

\* The value is the id of one record.
C15_SingleRecord(v) == v.t = "Thing" /\ v.v # "user:1..9"
\* Whether the method, called with params p, is to return a scalar.
C15_Scalar(m, p) ==
  CASE m = "Create" -> C15_SingleRecord(p[1]) \/ p[1].t \in {"Strand", "Table"}
    [] m = "Relate" -> /\ C15_SingleRecord(p[1]) \/ p[1].t = "Object"
                       /\ C15_SingleRecord(p[3]) \/ p[3].t = "Object"
    [] OTHER -> C15_SingleRecord(p[1])

\* C15: Select, Upsert, Update, Merge, Patch and Delete return the first row
\* of the first response when what is one record id and the whole array
\* otherwise; Create also returns the first row when what is a table;
\* Relate returns the first row when from and to are both single.
C15_ResultShape ==
  (/\ pc = "done" /\ req.allow
   /\ req.method \in {"Select", "Upsert", "Update", "Merge", "Patch", "Delete", "Create", "Relate"}
   /\ ds # <<>> /\ ds[1].ret.ok /\ ds[1].ret.resps[1].ok) =>
    LET rows == ds[1].ret.resps[1].val
    IN /\ rows # First(rows)
       /\ result = IF C15_Scalar(req.method, req.params) THEN Ok(First(rows)) ELSE Ok(rows)

C15_Witness ==
  /\ pc = "done" /\ req.allow /\ req.method = "Create"
  /\ req.params = <<Str("user"), Obj("data")>>
  /\ ds # <<>> /\ ds[1].ret = DsOk(<<Resp("Other", TRUE, Arr("rows"))>>)
  /\ result = Ok(Obj("row1"))

\* The could-be-table coercion: a plain string names a table.
C16_Coerced(v) == IF v.t = "Strand" THEN Table(v.v) ELSE v

\* C16: the what argument of every CRUD handler reaches the datastore
\* coerced: a plain string as a table reference, a record id unchanged,
\* whether the statement holds it or reads it from the parameter what.
C16_WhatCoerced ==
  (/\ pc = "done" /\ req.allow
   /\ req.method \in {"Select", "Create", "Insert", "InsertRelation", "Upsert", "Update",
                      "Merge", "Patch", "Delete"}
   /\ ds # <<>> /\ ~is_none_or_null(req.params[1])) =>
    LET target == IF ds[1].stmt.what = Param("what") THEN ds[1].vars[1]["what"]
                  ELSE ds[1].stmt.what
    IN target = C16_Coerced(req.params[1])

\* The argument counts of the method table.
C17_Arity(m) ==
  CASE m \in {"Select", "Delete"} -> {1}
    [] m \in {"Create", "Merge"} -> 1..2
    [] m \in {"Insert", "InsertRelation"} -> {2}
    [] m \in {"Upsert", "Update"} -> 1..3
    [] m = "Patch" -> 2..3
    [] m = "Relate" -> 3..4

\* C17: a CRUD call with a number of arguments outside the method's arity
\* returns InvalidParams and makes no datastore call.
C17_ArityEnforced ==
  (/\ pc = "done" /\ req.allow
   /\ req.method \in {"Select", "Delete", "Create", "Merge", "Insert", "InsertRelation",
                      "Upsert", "Update", "Patch", "Relate"}
   /\ Len(req.params) \notin C17_Arity(req.method)) =>
    result = Err("InvalidParams") /\ ds = <<>>

\* C18: the statement of each method has the data clause and the output
\* clause of the method table; Create, Merge and Relate have no data clause
\* when the data argument is None or Null.
C18_Clauses ==
  (/\ pc = "done" /\ req.allow /\ ds # <<>>
   /\ req.method \in {"Create", "Merge", "Patch", "Delete", "Relate"}) =>
    LET stmt == ds[1].stmt
        p == req.params
        m == req.method
        data == IF m = "Relate" THEN Arg(p, 4) ELSE Arg(p, 2)
        clause == CASE m = "Create" -> "CONTENT"
                    [] m = "Merge" -> "MERGE"
                    [] m = "Relate" -> "CONTENT"
                    [] m = "Patch" -> "PATCH"
                    [] m = "Delete" -> ""
    IN /\ stmt.data = IF m \in {"Create", "Merge", "Relate"} /\ data.t \in {"None", "Null"}
                      THEN "" ELSE clause
       /\ stmt.output = CASE m = "Delete" -> "BEFORE"
                          [] m = "Patch" /\ Arg(p, 3) = Bool("true") -> "DIFF"
                          [] OTHER -> "AFTER"

\* The parameters a call synthesises, from its method and its arguments.
C19_Synthesised(m, p) ==
  CASE m \in {"Select", "Delete", "Live"} -> ("what" :> C16_Coerced(Arg(p, 1)))
    [] m \in {"Create", "Merge", "Patch"} ->
         ("what" :> C16_Coerced(Arg(p, 1))) @@ ("data" :> Arg(p, 2))
    [] m \in {"Insert", "InsertRelation"} ->
         IF Arg(p, 1).t \in {"None", "Null"} THEN ("data" :> Arg(p, 2))
         ELSE ("what" :> C16_Coerced(Arg(p, 1))) @@ ("data" :> Arg(p, 2))
    [] m = "Relate" ->
         ("from" :> Arg(p, 1)) @@ ("kind" :> C16_Coerced(Arg(p, 2))) @@ ("to" :> Arg(p, 3))
           @@ ("data" :> Arg(p, 4))
    [] m = "Kill" -> ("id" :> Arg(p, 1))
    [] OTHER -> EmptyMap

C20_StartsWith(s, prefix) == Len(s) >= Len(prefix) /\ SubSeq(s, 1, Len(prefix)) = prefix

\* C20: Run builds a user-defined function call for a name starting with
\* fn::, a model call for one starting with ml:: (InvalidParams and no
\* datastore call without a version), a built-in function call for any other
\* name; an ill-typed name, version or args is InvalidParams; None or Null
\* args is the empty argument list.
C20_RunKinds ==
  (pc = "done" /\ req.allow /\ req.method = "Run" /\ Len(req.params) \in 1..3) =>
    LET name == Arg(req.params, 1)
        ver == Arg(req.params, 2)
        args == Arg(req.params, 3)
        typed == /\ name.t = "Strand"
                 /\ ver.t \in {"Strand", "None", "Null"}
                 /\ args.t \in {"Array", "None", "Null"}
    IN /\ ~typed => result = Err("InvalidParams") /\ ds = <<>>
       /\ (typed /\ C20_StartsWith(name.v, "ml::") /\ ver.t # "Strand") =>
            result = Err("InvalidParams") /\ ds = <<>>
       /\ (typed /\ ~(C20_StartsWith(name.v, "ml::") /\ ver.t # "Strand")) =>
            /\ ds # <<>>
            /\ ds[1].stmt.kind = IF C20_StartsWith(name.v, "fn::") THEN "FN CUSTOM"
                                 ELSE IF C20_StartsWith(name.v, "ml::") THEN "MODEL"
                                 ELSE "FN NORMAL"
            /\ ds[1].stmt.args = IF args.t = "Array" THEN args ELSE Arr("empty")

\* A GraphQL call the capability gate admitted returned.
C21_GraphQLCall == pc = "done" /\ req.allow /\ req.method = "GraphQL"

\* C21: when GQL_SUPPORT is false, or the graphql.enable setting is false, or
\* GraphQL is not compiled in, a GraphQL call returns BadGQLConfig whatever
\* its params, with nothing validated, looked up or executed.
C21_GraphQLGate ==
  (C21_GraphQLCall /\ ~(env.unstable /\ env.GQL_SUPPORT /\ env.GRAPHQL_ENABLE)) =>
    result = Err("BadGQLConfig") /\ ds = <<>>

\* C22: the options of GraphQL are optional: without them the call goes on
\* with pretty = false and format = json; given, they are an object of
\* pretty (bool) and format (json or cbor), anything else being
\* InvalidParams; format cbor is Thrown("Cbor is not yet supported") for a
\* string request and for an object request.
C22_GraphQLOptions ==
  (C21_GraphQLCall /\ env.unstable /\ env.GQL_SUPPORT /\ env.GRAPHQL_ENABLE) =>
    LET p == req.params
    IN /\ (Len(p) = 1 /\ p[1].t = "Strand") =>
            /\ result # Err("InvalidParams")
            /\ result.ok => result = Ok(Str("json"))
       /\ (Len(p) = 2 /\ p[2] = Obj("badopts")) => result = Err("InvalidParams")
       /\ (Len(p) = 2 /\ p[2] = Obj("cbor") /\ p[1].t \in {"Strand", "Object"}) =>
            result = Err("Thrown(Cbor is not yet supported)")
       /\ (Len(p) = 2 /\ p[2] = Obj("pretty") /\ p[1].t = "Strand" /\ result.ok) =>
            result = Ok(Str("pretty json"))

\* The callbacks the responses rs call for, in the order of the responses.
C23_Callbacks(rs) ==
  LET calls(r) == r.qt \in {"Live", "Kill"} /\ r.ok /\ r.val.t = "Uuid"
      sel == SelectSeq(rs, calls)
  IN [i \in 1..Len(sel) |->
        [fn |-> IF sel[i].qt = "Live" THEN "handle_live" ELSE "handle_kill",
         lqid |-> sel[i].val.v]]

\* The sequence a is an initial part of the sequence b.
C23_Prefix(a, b) == Len(a) <= Len(b) /\ a = SubSeq(b, 1, Len(a))

\* C23: in query_inner a callback is made only after the one datastore call
\* has answered, and none when that call failed, in which case the error is
\* returned; the callbacks are made in the order of the responses; when the
\* method returns all of them have been made, and Query returns the
\* datastore's responses as they came (Live and Kill the first result).
C23_QueryInnerOrder ==
  C12_ReachesQueryInner =>
    /\ Len(ds) <= 1
    /\ cb # <<>> => ds # <<>> /\ ds[1].ret.ok
    /\ (ds # <<>> /\ ~ds[1].ret.ok) => cb = <<>> /\ result = Err("Thrown")
    /\ (ds # <<>> /\ ds[1].ret.ok) =>
         /\ C23_Prefix(cb, C23_Callbacks(ds[1].ret.resps))
         /\ result.ok =>
              /\ cb = C23_Callbacks(ds[1].ret.resps)
              /\ result = IF req.method = "Query" THEN OkResponses(ds[1].ret.resps)
                          ELSE Ok(ds[1].ret.resps[1].val)

C23_Witness ==
  /\ C12_ReachesQueryInner /\ req.method = "Query" /\ env.LQ_SUPPORT
  /\ ds # <<>>
  /\ ds[1].ret = DsOk(<<Resp("Kill", TRUE, Uuid("u2")), Resp("Live", TRUE, Uuid("u1"))>>)
  /\ cb = <<[fn |-> "handle_kill", lqid |-> "u2"], [fn |-> "handle_live", lqid |-> "u1"]>>
  /\ result = OkResponses(ds[1].ret.resps)

\* C24: a Use call that returns InvalidParams leaves the session as it was:
\* no namespace is assigned when the database argument is the invalid one.
C24_FailedUseKeepsSession ==
  (Executed("Use") /\ result = Err("InvalidParams")) =>
    session.ns = pre.session.ns /\ session.db = pre.session.db

\* The methods that are not in the mutating set.
C25_NonMutating ==
  {"Ping", "Info", "Select", "Insert", "InsertRelation", "Create", "Upsert", "Update", "Merge",
   "Patch", "Delete", "Version", "Query", "Relate", "Run", "GraphQL", "Unknown"}

\* C25: for a method outside the mutating set, every call through execute
\* is, with the same answers of the datastore, a call execute_immut can make
\* with the same datastore calls and the same result, and the other way
\* round; execute leaves the session and the variable map as they were.
C25_SameThroughBothEntries ==
  [][(pc = "idle" /\ req'.method \in C25_NonMutating) =>
       /\ req'.entry = "execute" =>
            /\ execute_immut_body(req'.allow, req'.method, req'.params)
            /\ session' = session /\ vars' = vars
       /\ req'.entry = "execute_immut" =>
            execute_body(req'.allow, req'.method, req'.params)]_state

C25_Witness ==
  /\ pc = "done" /\ req.entry = "execute" /\ req.allow /\ req.method = "Run"
  /\ req.params = <<Str("fn::greet")>>
  /\ ds # <<>> /\ result.ok
  /\ session = pre.session /\ vars = pre.vars /\ vars # EmptyMap

\* The errors of the RPC taxonomy.
C26_RpcErrors ==
  {"ParseError", "InvalidRequest", "MethodNotFound", "MethodNotAllowed", "InvalidParams",
   "InternalError", "LqNotSuported", "BadLQConfig", "BadGQLConfig", "Thrown"}

\* C26: Run does not abort on its name: for every string name, however
\* short, the call returns a value or an error of the RPC taxonomy, and a
\* name with neither prefix reaches the datastore as a built-in function.
C26_RunNeverAborts ==
  (/\ pc = "done" /\ req.allow /\ req.method = "Run"
   /\ Len(req.params) >= 1 /\ req.params[1].t = "Strand") =>
    /\ result.ok \/ result.err \in C26_RpcErrors
    /\ (Len(req.params) = 1 /\ Len(req.params[1].v) < 4) =>
         ds # <<>> /\ ds[1].stmt.kind = "FN NORMAL" /\ ds[1].stmt.name = req.params[1].v

\* C27: converting a triple, a 3-element array [l, o, r] or an object with
\* keys l, o, r gives the Assignment whose left-hand side is the idiom of l,
\* whose operator is Equal / Inc / Dec / Ext for o = "=" / "+=" / "-=" / "+?="
\* and whose right-hand side is r; it fails with InvalidOperator for another
\* string o, with a conversion error for a non-string o, for an array whose
\* length is not 3, for an object missing one of l, o, r, and for a value
\* that is neither an array nor an object.
C27_Operator(o) ==
  CASE o = "=" -> "Equal" [] o = "+=" -> "Inc" [] o = "-=" -> "Dec" [] o = "+?=" -> "Ext"

C27_Expected(l, o, r) ==
  IF o.t # "Strand" THEN AssignmentErr("TryFrom")
  ELSE IF o.v \notin {"=", "+=", "-=", "+?="} THEN AssignmentErr("InvalidOperator")
  ELSE AssignmentOk(to_idiom(l), C27_Operator(o.v), r)

C27_AssignmentConversion ==
  conv.called =>
    LET v == conv.from IN
    CASE v.t = "Tuple" -> conv.out = C27_Expected(v.items[1], v.items[2], v.items[3])
      [] v.t = "Array" ->
           IF Len(v.items) = 3
           THEN conv.out = C27_Expected(v.items[1], v.items[2], v.items[3])
           ELSE conv.out = AssignmentErr("TryFrom")
      [] v.t = "Object" ->
           IF AssignmentKeys \subseteq DOMAIN v.fields
           THEN conv.out = C27_Expected(v.fields["l"], v.fields["o"], v.fields["r"])
           ELSE conv.out = AssignmentErr("TryFrom")
      [] OTHER -> conv.out = AssignmentErr("TryFrom")


=============================================================================
